---- MODULE Spec2Model ----
(***************************************************************************)
(* The blog-writer pipeline of blog_writer_app: BlogWriter (the session    *)
(* state and its five stage methods), AIHandler (the completion client and *)
(* its response parsing), SearchHandler (search_web and scrape_content),   *)
(* the research loop over them, and the button handlers of main.py.        *)
(*                                                                         *)
(* Python values are tagged records, so that None, "", [] and values of an *)
(* unexpected type stay distinguishable and Python truthiness is computed. *)
(* A page's text is modelled by its length (content |-> number of          *)
(* characters); the only thing the code does with it is test its length.   *)
(*                                                                         *)
(* state is BlogWriter.state, step is st.session_state.step of main.py,    *)
(* last describes the last call made on the BlogWriter and done is the set *)
(* of its methods that have returned so far.                               *)
(***************************************************************************)
EXTENDS Integers, Sequences, FiniteSets, TLC

VARIABLES state, last, done, step

vars == <<state, last, done, step>>

(***************************************************************************)
(* Python values                                                           *)
(***************************************************************************)
PyNone == [t |-> "None"]
PyStr(s) == [t |-> "str", v |-> s]
PyInt(n) == [t |-> "int", v |-> n]
PyList(l) == [t |-> "list", v |-> l]
PyDict(f) == [t |-> "dict", v |-> f]

\* bool(x) for the value shapes above
Truthy(x) ==
    CASE x.t = "None" -> FALSE
      [] x.t = "str"  -> x.v # ""
      [] x.t = "int"  -> x.v # 0
      [] x.t = "list" -> x.v # <<>>
      [] x.t = "dict" -> DOMAIN x.v # {}

\* d.get(k, default) on a dict value
Get(d, k, default) == IF k \in DOMAIN d.v THEN d.v[k] ELSE default

Min(a, b) == IF a < b THEN a ELSE b

\* x[:n] raises TypeError unless x is a sequence type (list or str)
Sliceable(x) == x.t \in {"list", "str"}

\* x[:n] on a list or a str, n >= 0
Slice(x, n) == [t |-> x.t, v |-> SubSeq(x.v, 1, Min(n, Len(x.v)))]

\* len(x) on a list or a str; iterating a str yields its characters
PyLen(x) == Len(x.v)

(***************************************************************************)
(* AIHandler.generate_search_queries                                       *)
(*                                                                         *)
(* A completion response is [kind |-> "raise"] (the API call or the access *)
(* to its first choice throws) or [kind |-> "text", val |-> v], where v is *)
(* what eval(content) yields: a Python value, or Unevaluable when eval     *)
(* itself throws.                                                          *)
(***************************************************************************)
Unevaluable == [t |-> "unevaluable"]

NumQueriesDefault == 5

FallbackQueries_Four(topic) ==
    PyList(<< PyStr(topic \o " guide"),
              PyStr(topic \o " best practices"),
              PyStr("how to " \o topic),
              PyStr(topic \o " tips") >>)

\* lines 76-80, 85-89 and 93-97
FallbackQueries(topic) ==
    PyList(<< PyStr(topic \o " guide"),
              PyStr(topic \o " best practices"),
              PyStr("how to " \o topic),
              PyStr(topic \o " tips"),
              PyStr(topic \o " examples") >>)

\* the value sliced at line 82: content's "queries", or the whole evaluated
\* content when that is missing or falsy (lines 69-73)
QueriesOf(val) ==
    LET queries == Get(val, "queries", PyList(<<>>))
    IN  IF ~Truthy(queries) THEN val ELSE queries

generate_search_queries(topic, num_queries, resp) ==
    IF resp.kind = "raise" THEN FallbackQueries(topic)
    ELSE IF resp.val = Unevaluable THEN FallbackQueries(topic)
    ELSE IF resp.val.t # "dict" THEN FallbackQueries(topic)
    ELSE IF ~Sliceable(QueriesOf(resp.val)) THEN FallbackQueries(topic)
    ELSE Slice(QueriesOf(resp.val), num_queries)

(***************************************************************************)
(* AIHandler.analyze_content: the parsing cascade                          *)
(*                                                                         *)
(* A piece of text is modelled by what the cascade can observe of it:      *)
(*   json    what json.loads yields for the whole text: a Python value, or *)
(*           NotJson when it throws JSONDecodeError;                       *)
(*   fence   NoFence, or the text between "```json" and the next "```";    *)
(*   matches what re.findall(json_pattern, text) returns. The pattern has  *)
(*           two capturing groups, so findall returns one tuple of the two *)
(*           group strings per match, not the matched text;                *)
(*   fields  what the four field patterns of method 4 find: per key        *)
(*           NoMatch, or Match of the captured string (of the sequence of  *)
(*           quoted strings inside the array, for the two array fields).   *)
(* A completion response is [kind |-> "raise"], or [kind |-> "text",       *)
(* content |-> c] with c a text or PyNone (a message without content).     *)
(***************************************************************************)
NotJson == [t |-> "notjson"]
NoFence == [t |-> "nofence"]
NoMatch == [t |-> "nomatch"]
Match(v) == [t |-> "match", v |-> v]

NoFields ==
    [primary_keyword |-> NoMatch, secondary_keywords |-> NoMatch,
     title |-> NoMatch, outline |-> NoMatch]

Text(json, fence, matches, fields) ==
    [t |-> "text", json |-> json, fence |-> fence, matches |-> matches, fields |-> fields]

\* a text with nothing in it but (possibly invalid) JSON
Plain(json) == Text(json, NoFence, <<>>, NoFields)

GroupTuple == [t |-> "tuple"]

\* the tuple findall returns for a match whose whole text is the given
\* text; the whole text is not in the tuple
GroupTupleOf(whole) == [t |-> "tuple", whole |-> whole]

\* json.loads(x): [ok |-> TRUE, val |-> v], or the exception it throws
JsonLoads(x) ==
    IF x.t # "text" THEN [ok |-> FALSE, exc |-> "TypeError"]
    ELSE IF x.json = NotJson THEN [ok |-> FALSE, exc |-> "JSONDecodeError"]
    ELSE [ok |-> TRUE, val |-> x.json]

\* str.title() on the topics the model draws from
TitleCase(topic) ==
    CASE topic = "kayaking" -> "Kayaking"
      [] topic = "intermittent fasting" -> "Intermittent Fasting"
      [] OTHER -> topic

TemplateKeywords(topic) ==
    PyList(<< PyStr(topic \o " guide"), PyStr(topic \o " tips"), PyStr("how to " \o topic) >>)

TemplateOutline_Six(topic) ==
    PyList(<< PyStr("Introduction to " \o topic),
              PyStr("Why " \o topic \o " is Important"),
              PyStr("Key Benefits of " \o topic),
              PyStr("How to Get Started with " \o topic),
              PyStr("Best Practices for " \o topic),
              PyStr("Conclusion") >>)

\* lines 267-275, 294-302 and 311-319
TemplateOutline(topic) ==
    PyList(<< PyStr("Introduction to " \o topic),
              PyStr("Why " \o topic \o " is Important"),
              PyStr("Key Benefits of " \o topic),
              PyStr("How to Get Started with " \o topic),
              PyStr("Best Practices for " \o topic),
              PyStr("Common Challenges and Solutions"),
              PyStr("Conclusion") >>)

\* lines 290-303 and 307-320
FallbackPlan(topic) ==
    PyDict([primary_keyword |-> PyStr(topic),
            secondary_keywords |-> TemplateKeywords(topic),
            title |-> PyStr("Complete Guide to " \o TitleCase(topic)
                            \o ": Everything You Need to Know"),
            outline |-> TemplateOutline(topic)])

StrList(seq) == PyList([i \in 1..Len(seq) |-> PyStr(seq[i])])

\* method 4, lines 243-284
ManualExtraction(topic, content) ==
    LET f == content.fields
    IN  PyDict([primary_keyword |->
                    IF f.primary_keyword # NoMatch THEN PyStr(f.primary_keyword.v)
                    ELSE PyStr(topic),
                secondary_keywords |->
                    IF f.secondary_keywords # NoMatch THEN StrList(f.secondary_keywords.v)
                    ELSE TemplateKeywords(topic),
                title |->
                    IF f.title # NoMatch THEN PyStr(f.title.v)
                    ELSE PyStr("Complete Guide to " \o TitleCase(topic)),
                outline |->
                    IF f.outline # NoMatch THEN StrList(f.outline.v)
                    ELSE TemplateOutline(topic)])

\* method 3, lines 229-240: max(findall(...), key=len) is handed to json.loads.
\* Every result is a tuple of length 2, so max returns the first of them.
\* [ok |-> FALSE] when there is no match or loads throws
RegexExtraction(content) ==
    IF content.matches = <<>> THEN [ok |-> FALSE, exc |-> "none"]
    ELSE JsonLoads(content.matches[1])

\* method 2, lines 219-226
FenceExtraction(content) ==
    IF content.fence = NoFence THEN [ok |-> FALSE, exc |-> "none"]
    ELSE JsonLoads(content.fence)

\* the strategy that produces the returned value: 1..4, or 0 for the
\* handler of the outer try (a failed call, or a non-JSONDecodeError in
\* method 1)
StrategyUsed(resp) ==
    IF resp.kind = "raise" THEN 0
    ELSE IF JsonLoads(resp.content).ok THEN 1
    ELSE IF JsonLoads(resp.content).exc # "JSONDecodeError" THEN 0
    ELSE IF FenceExtraction(resp.content).ok THEN 2
    ELSE IF RegexExtraction(resp.content).ok THEN 3
    ELSE 4

ai_analyze_content_Defaulted(topic, resp) ==
    CASE StrategyUsed(resp) = 0 -> FallbackPlan(topic)
      [] StrategyUsed(resp) = 1 ->
            IF JsonLoads(resp.content).val.t # "dict" THEN JsonLoads(resp.content).val
            ELSE PyDict([f \in {"primary_keyword", "secondary_keywords", "title", "outline"} |->
                            Get(JsonLoads(resp.content).val, f, FallbackPlan(topic).v[f])])
      [] StrategyUsed(resp) = 2 -> FenceExtraction(resp.content).val
      [] StrategyUsed(resp) = 3 -> RegexExtraction(resp.content).val
      [] StrategyUsed(resp) = 4 -> ManualExtraction(topic, resp.content)

\* lines 185-320
ai_analyze_content(topic, resp) ==
    CASE StrategyUsed(resp) = 0 -> FallbackPlan(topic)
      [] StrategyUsed(resp) = 1 -> JsonLoads(resp.content).val
      [] StrategyUsed(resp) = 2 -> FenceExtraction(resp.content).val
      [] StrategyUsed(resp) = 3 -> RegexExtraction(resp.content).val
      [] StrategyUsed(resp) = 4 -> ManualExtraction(topic, resp.content)

(***************************************************************************)
(* AIHandler.generate_article                                              *)
(*                                                                         *)
(* The response is [kind |-> "raise", msg |-> str(e)] or [kind |-> "text", *)
(* content |-> the message content], returned verbatim. The user prompt is *)
(* formatted before the try block: ', '.join(secondary_keywords) and       *)
(* '- ' + item for each item of the outline raise TypeError unless the     *)
(* value is an iterable of str.                                            *)
(***************************************************************************)
\* iterating x yields str only: a str gives its characters, a JSON object
\* its keys, a list its entries
Joinable(x) ==
    CASE x.t \in {"str", "dict"} -> TRUE
      [] x.t = "list" -> \A i \in 1..Len(x.v) : x.v[i].t = "str"
      [] OTHER -> FALSE

\* lines 362-377
UserPromptBuilds(secondary_keywords, outline) ==
    Joinable(secondary_keywords) /\ Joinable(outline)

\* lines 379-393
ai_generate_article(resp) ==
    IF resp.kind = "raise" THEN PyStr("Error generating article: " \o resp.msg)
    ELSE resp.content

(***************************************************************************)
(* SearchHandler.search_web                                                *)
(*                                                                         *)
(* What the search API does with the POST is [kind |-> "transport"]        *)
(* (requests.post raises a RequestException), [kind |-> "http"]            *)
(* (raise_for_status raises HTTPError, a RequestException) or              *)
(* [kind |-> "json", body |-> v], v the value response.json() decodes.     *)
(* The outcome is [raised |-> "none", ret |-> list] or the exception that  *)
(* leaves search_web: only requests.RequestException is caught.            *)
(***************************************************************************)
Returned(v) == [raised |-> "none", ret |-> v]
Raised(exc) == [raised |-> exc, ret |-> PyNone]

\* lines 70-72: the result is kept
HasLink(result) == Truthy(Get(result, "link", PyStr("")))

\* lines 74-78
ResultEntry(result) ==
    PyDict([title |-> Get(result, "title", PyStr("")),
            link |-> Get(result, "link", PyStr("")),
            snippet |-> Get(result, "snippet", PyStr(""))])

\* lines 66-78 over a list: None entries are skipped, result.get raises on
\* an entry that is not a dict
OrganicLoop(entries) ==
    IF \E i \in 1..Len(entries) : entries[i].t \notin {"None", "dict"}
    THEN Raised("AttributeError")
    ELSE LET kept == SelectSeq(entries, LAMBDA r : r.t = "dict" /\ HasLink(r))
         IN  Returned(PyList([i \in 1..Len(kept) |-> ResultEntry(kept[i])]))

\* lines 49-83
search_web(resp) ==
    IF resp.kind \in {"transport", "http"} THEN Returned(PyList(<<>>))
    ELSE IF resp.body.t # "dict" THEN Raised("AttributeError")
    ELSE LET organic_results == Get(resp.body, "organic", PyList(<<>>))
         IN  CASE organic_results.t = "None" -> Returned(PyList(<<>>))
               [] organic_results.t = "list" -> OrganicLoop(organic_results.v)
               \* iterating a str gives its characters, a dict its keys: str
               \* values, on which result.get raises
               [] organic_results.t \in {"str", "dict"} ->
                     IF Truthy(organic_results) THEN Raised("AttributeError")
                     ELSE Returned(PyList(<<>>))
               [] OTHER -> Raised("TypeError")

(***************************************************************************)
(* SearchHandler.scrape_content                                            *)
(*                                                                         *)
(* What the GET of a URL gives is [kind |-> "transport"], [kind |-> "http"]*)
(* (both with the message of the exception), or [kind |-> "body"] with     *)
(* empty |-> whether response.content is empty and soup |-> what           *)
(* BeautifulSoup makes of the bytes: ParseRaises, or a document            *)
(*   [title |-> the string of <title> or PyNone,                           *)
(*    main |-> NoMain, or Main of the text lengths of the <p> inside the   *)
(*             first article / main / content div,                         *)
(*    paragraphs |-> the text lengths of all <p>,                          *)
(*    headings |-> the stripped text lengths of the h1, h2, h3].           *)
(* html.parser accepts any bytes: a body that is not HTML gives NoElements.*)
(* A page is a record; the error field is present only where the code      *)
(* sets it.                                                                *)
(***************************************************************************)
ParseRaises == [t |-> "raises"]
NoMain == [t |-> "nomain"]
Main(paragraphs) == [t |-> "main", v |-> paragraphs]
Document(title, main, paragraphs, headings) ==
    [t |-> "soup", title |-> title, main |-> main, paragraphs |-> paragraphs,
     headings |-> headings]
NoElements == Document(PyNone, NoMain, <<>>, <<>>)

MinHeadingLen == 3
ParagraphBreak == 2

\* lines 103-110 and 151-159
ErrorPage(url, error) ==
    [url |-> url, error |-> error, title |-> PyStr(""), content |-> 0, headings |-> <<>>]

\* lines 127-132: content += paragraph.get_text() + "\n\n"
RECURSIVE ContentLength(_)
ContentLength(paragraphs) ==
    IF paragraphs = <<>> THEN 0
    ELSE Head(paragraphs) + ParagraphBreak + ContentLength(Tail(paragraphs))

\* lines 136-143
KeptHeadings(headings) == SelectSeq(headings, LAMBDA n : n # 0 /\ n > MinHeadingLen)

\* lines 95-159: the whole body is inside try / except Exception
scrape_content(url, fetch) ==
    IF fetch.kind \in {"transport", "http"} THEN ErrorPage(url, fetch.msg)
    ELSE IF fetch.empty THEN ErrorPage(url, "Empty response content")
    ELSE IF fetch.soup = ParseRaises THEN ErrorPage(url, "parser error")
    ELSE [url |-> url,
          title |-> IF Truthy(fetch.soup.title) THEN fetch.soup.title ELSE PyStr(""),
          content |-> IF fetch.soup.main # NoMain THEN ContentLength(fetch.soup.main.v)
                      ELSE ContentLength(fetch.soup.paragraphs),
          headings |-> KeptHeadings(fetch.soup.headings)]

(***************************************************************************)
(* BlogWriter: the session state and the research loop                     *)
(*                                                                         *)
(* What the web answers to the i-th query is a sequence of numbers, one    *)
(* per organic result that has a link, in result order: the length of the  *)
(* text scrape_content extracts from that result's page (0 for a page that *)
(* fails to load or holds no paragraph). A link is <<query, result>>.      *)
(***************************************************************************)
TopResults == 5
EnoughPages == 25
MinContentLen == 100

\* SearchHandler.search_web for query qi: the organic results that have a link
SearchResults(qi, lens) == [i \in 1..Len(lens) |-> [link |-> <<qi, i>>]]

\* SearchHandler.scrape_content for a link
ScrapedPage(link, lens) == [url |-> link, content |-> lens[link[2]]]

Accepts_Inclusive(page) == page.content # 0 /\ page.content >= MinContentLen

\* line 92: content and len(content) > 100
Accepts(page) == page.content # 0 /\ page.content > MinContentLen

\* lines 79-93: the pages scraped for one query's results
ScrapedTop(results, lens) ==
    [i \in 1..Min(TopResults, Len(results)) |-> ScrapedPage(results[i].link, lens)]

HasEnough_OffByOne(scraped) == Len(scraped) > EnoughPages

\* line 96
HasEnough(scraped) == Len(scraped) >= EnoughPages

\* lines 67-97: the loop from query qi on; acc holds the two accumulators
\* and the number of searches and scrapes issued so far
RECURSIVE ResearchLoop(_, _, _, _)
ResearchLoop(qi, n, web, acc) ==
    IF qi > n THEN acc
    ELSE LET results == SearchResults(qi, web[qi])
             pages == ScrapedTop(results, web[qi])
             next == [results  |-> acc.results \o results,
                      scraped  |-> acc.scraped \o SelectSeq(pages, Accepts),
                      searches |-> acc.searches + 1,
                      scrapes  |-> acc.scrapes + Len(pages)]
         IN  IF results = <<>>
             THEN ResearchLoop(qi + 1, n, web, [acc EXCEPT !.searches = @ + 1])
             ELSE IF HasEnough(next.scraped) THEN next
             ELSE ResearchLoop(qi + 1, n, web, next)

Research(queries, web) ==
    ResearchLoop(1, PyLen(queries), web,
                 [results |-> <<>>, scraped |-> <<>>, searches |-> 0, scrapes |-> 0])

\* lines 19-29
InitState ==
    [topic |-> PyNone,
     search_queries |-> PyList(<<>>),
     search_results |-> PyList(<<>>),
     scraped_content |-> PyList(<<>>),
     primary_keyword |-> PyNone,
     secondary_keywords |-> PyList(<<>>),
     title |-> PyNone,
     outline |-> PyList(<<>>),
     article |-> PyNone]

\* what a call did: the exception it raised ("none" when it returned), its
\* return value, the external calls it made, and its arguments
Outcome(op, raised, ret, ai_calls, searches, scrapes, args) ==
    [op |-> op, raised |-> raised, ret |-> ret, ai_calls |-> ai_calls,
     searches |-> searches, scrapes |-> scrapes, args |-> args]

Raises(op, exc, ai_calls, args) ==
    /\ last' = Outcome(op, exc, PyNone, ai_calls, 0, 0, args)
    /\ UNCHANGED <<state, done>>

Returns(op, ret, ai_calls, searches, scrapes, args) ==
    /\ last' = Outcome(op, "none", ret, ai_calls, searches, scrapes, args)
    /\ done' = done \cup {op}

Init ==
    /\ state = InitState
    /\ last = Outcome("init", "none", PyNone, 0, 0, 0, <<>>)
    /\ done = {}
    /\ step = 1

process_topic_Reset(topic, resp) ==
    LET search_queries == generate_search_queries(topic, NumQueriesDefault, resp)
    IN  /\ state' = [InitState EXCEPT !.topic = PyStr(topic),
                                      !.search_queries = search_queries]
        /\ Returns("process_topic", search_queries, 1, 0, 0,
                   [topic |-> topic, resp |-> resp])

\* lines 31-51
process_topic(topic, resp) ==
    LET search_queries == generate_search_queries(topic, NumQueriesDefault, resp)
    IN  /\ state' = [state EXCEPT !.topic = PyStr(topic),
                                  !.search_queries = search_queries]
        /\ Returns("process_topic", search_queries, 1, 0, 0,
                   [topic |-> topic, resp |-> resp])

HasQueries_NoGuard == TRUE

\* line 60
HasQueries == Truthy(state.search_queries)

\* lines 53-103
perform_research(web) ==
    IF ~HasQueries
    THEN Raises("perform_research", "ValueError", 0, <<>>)
    ELSE LET r == Research(state.search_queries, web)
         IN  /\ state' = [state EXCEPT !.search_results = PyList(r.results),
                                       !.scraped_content = PyList(r.scraped)]
             /\ Returns("perform_research", PyList(r.scraped), 0, r.searches, r.scrapes,
                        [web |-> web])

HasScrapedContent_WrongField == Truthy(state.search_queries)

\* line 112
HasScrapedContent == Truthy(state.scraped_content)

\* lines 132-135
StorePlan(analysis) ==
    [state EXCEPT !.primary_keyword = Get(analysis, "primary_keyword", PyNone),
                  !.secondary_keywords = Get(analysis, "secondary_keywords", PyList(<<>>)),
                  !.title = Get(analysis, "title", PyNone),
                  !.outline = Get(analysis, "outline", PyList(<<>>))]

\* lines 105-137; analysis.get at line 125 raises AttributeError when the
\* parsed value is not a dict
analyze_content(resp) ==
    IF ~HasScrapedContent
    THEN Raises("analyze_content", "ValueError", 0, [resp |-> resp])
    ELSE LET analysis == ai_analyze_content(state.topic.v, resp)
         IN  IF analysis.t # "dict"
             THEN Raises("analyze_content", "AttributeError", 1, [resp |-> resp])
             ELSE /\ state' = StorePlan(analysis)
                  /\ Returns("analyze_content", analysis, 1, 0, 0, [resp |-> resp])

Edited_Assigned(old, new) == new

Edited_IsNotNone(old, new) == IF new # PyNone THEN new ELSE old

\* lines 153-163: one "if value:" per field
Edited(old, new) == IF Truthy(new) THEN new ELSE old

\* lines 139-163
update_content_plan(primary_keyword, secondary_keywords, title, outline) ==
    /\ state' = [state EXCEPT !.primary_keyword = Edited(@, primary_keyword),
                              !.secondary_keywords = Edited(@, secondary_keywords),
                              !.title = Edited(@, title),
                              !.outline = Edited(@, outline)]
    /\ Returns("update_content_plan", PyNone, 0, 0, 0,
               [primary_keyword |-> primary_keyword,
                secondary_keywords |-> secondary_keywords,
                title |-> title, outline |-> outline])

PlanComplete_NoKeyword ==
    /\ Truthy(state.secondary_keywords)
    /\ Truthy(state.title)
    /\ Truthy(state.outline)

\* lines 175-180
PlanComplete ==
    /\ Truthy(state.primary_keyword)
    /\ Truthy(state.secondary_keywords)
    /\ Truthy(state.title)
    /\ Truthy(state.outline)

\* lines 165-196
generate_article(word_count, resp) ==
    IF ~PlanComplete
    THEN Raises("generate_article", "ValueError", 0, [word_count |-> word_count])
    ELSE IF ~UserPromptBuilds(state.secondary_keywords, state.outline)
    THEN Raises("generate_article", "TypeError", 0, [word_count |-> word_count])
    ELSE LET article == ai_generate_article(resp)
         IN  /\ state' = [state EXCEPT !.article = article]
             /\ Returns("generate_article", article, 1, 0, 0,
                        [word_count |-> word_count, resp |-> resp])

(***************************************************************************)
(* The inputs the model draws from                                         *)
(***************************************************************************)
Topics == {"kayaking", "intermittent fasting"}

\* n strings "q1", "q2", ...
QueryNames == <<"q1", "q2", "q3", "q4", "q5", "q6", "q7", "q8", "q9">>
Queries(n) == PyList([i \in 1..n |-> PyStr(QueryNames[i])])

\* the longest list of queries a completion response holds
MaxListed == 6
\* the largest num_queries generate_search_queries is called with
MaxCount == 6
\* the largest number of stored queries perform_research is run on
MaxQueries == 6

RaiseResponse == [kind |-> "raise"]
ListedResponse(n) == [kind |-> "text", val |-> PyDict([queries |-> Queries(n)])]

\* what the completion call of generate_search_queries may answer
QueryResponses ==
    {RaiseResponse,
     [kind |-> "text", val |-> Unevaluable],
     [kind |-> "text", val |-> Queries(3)],
     [kind |-> "text", val |-> PyDict(<<>>)],
     [kind |-> "text", val |-> PyDict([results |-> Queries(2)])],
     [kind |-> "text", val |-> PyDict([queries |-> PyNone])],
     [kind |-> "text", val |-> PyDict([queries |-> PyInt(7)])],
     [kind |-> "text", val |-> PyDict([queries |-> PyDict([a |-> PyStr("q1")])])],
     [kind |-> "text", val |-> PyDict([queries |-> PyStr("kayak")])],
     [kind |-> "text", val |-> PyDict([queries |-> PyList(<<PyStr("")>>)])],
     [kind |-> "text", val |-> PyDict([queries |-> PyList(<<PyInt(1), PyInt(2)>>)])]}
    \cup {ListedResponse(n) : n \in 0..MaxListed}

\* what the web answers to one query
FiveLong == <<150, 150, 150, 150, 150>>
Answers ==
    {<<>>,
     <<200, 200, 200>>,
     <<150, 150, 150, 150>>,
     FiveLong,
     <<150, 100, 0, 101, 99, 150>>}

\* every query gets the same answer
UniformWeb(n, answers) == {[i \in 1..n |-> a] : a \in answers}

GoodPlan ==
    PyDict([primary_keyword |-> PyStr("sea kayaking"),
            secondary_keywords |-> PyList(<<PyStr("paddle"), PyStr("kayak")>>),
            title |-> PyStr("Sea Kayaking 101"),
            outline |-> PyList(<<PyStr("Intro"), PyStr("Gear"), PyStr("Safety")>>)])

AllFields ==
    [primary_keyword |-> Match("sea kayaking"), secondary_keywords |-> Match(<<"paddle">>),
     title |-> Match("Sea Kayaking 101"), outline |-> Match(<<"Intro", "Gear">>)]

\* a JSON object with the four fields AllFields finds and one more key
AnnotatedPlan ==
    PyDict([primary_keyword |-> PyStr("sea kayaking"),
            secondary_keywords |-> PyList(<<PyStr("paddle")>>),
            title |-> PyStr("Sea Kayaking 101"),
            outline |-> PyList(<<PyStr("Intro"), PyStr("Gear")>>),
            audience |-> PyStr("beginners")])

TextResponse(content) == [kind |-> "text", content |-> content]

\* what the completion call of analyze_content may answer
AnalysisResponses ==
    {RaiseResponse,
     TextResponse(PyNone),
     TextResponse(Plain(GoodPlan)),
     TextResponse(Plain(PyDict(<<>>))),
     TextResponse(Plain(PyDict([primary_keyword |-> PyStr("sea kayaking")]))),
     TextResponse(Plain(PyDict([GoodPlan.v EXCEPT !.primary_keyword = PyStr("")]))),
     TextResponse(Plain(PyDict([GoodPlan.v EXCEPT !.secondary_keywords = PyList(<<>>)]))),
     TextResponse(Plain(PyDict([GoodPlan.v EXCEPT !.title = PyNone]))),
     TextResponse(Plain(PyDict([primary_keyword |-> GoodPlan.v.primary_keyword,
                                secondary_keywords |-> GoodPlan.v.secondary_keywords,
                                title |-> GoodPlan.v.title]))),
     TextResponse(Plain(PyDict([primary_keyword |-> PyInt(3),
                                secondary_keywords |-> PyStr("paddle"),
                                title |-> PyNone,
                                outline |-> PyDict(<<>>)]))),
     TextResponse(Plain(PyList(<<PyStr("sea kayaking")>>))),
     TextResponse(Text(AnnotatedPlan, NoFence, <<GroupTuple>>, AllFields)),
     TextResponse(Text(NotJson, NoFence, <<GroupTupleOf(Plain(AnnotatedPlan))>>, AllFields)),
     TextResponse(Plain(PyDict([GoodPlan.v EXCEPT
                                  !.secondary_keywords = PyList(<<PyInt(1), PyInt(2)>>)]))),
     TextResponse(Text(NotJson, Plain(GoodPlan), <<GroupTuple>>, AllFields)),
     TextResponse(Text(NotJson, Plain(NotJson), <<GroupTuple>>, AllFields)),
     TextResponse(Text(NotJson, NoFence, <<GroupTuple, GroupTuple>>,
                       [NoFields EXCEPT !.title = Match("Sea Kayaking 101")])),
     TextResponse(Text(NotJson, NoFence, <<>>,
                       [NoFields EXCEPT !.secondary_keywords = Match(<<>>),
                                        !.outline = Match(<<>>)])),
     TextResponse(Plain(NotJson))}

\* what the completion call of generate_article may answer
ArticleResponses ==
    {[kind |-> "raise", msg |-> "Connection error."],
     TextResponse(PyStr("# Sea Kayaking 101 ...")),
     TextResponse(PyNone)}

WordCounts == {500, 1500}

\* the values a caller passes to update_content_plan
KeywordEdits == {PyNone, PyStr(""), PyStr(" "), PyStr("kayak touring")}
KeywordsEdits == {PyNone, PyList(<<>>), PyList(<<PyStr("")>>), PyList(<<PyStr("touring")>>)}
TitleEdits == {PyNone, PyStr(""), PyStr(" "), PyStr("Touring by Kayak")}
OutlineEdits == {PyNone, PyList(<<>>), PyList(<<PyStr("Routes")>>)}

(***************************************************************************)
(* Spec: the five stage methods of one BlogWriter, called in any order     *)
(***************************************************************************)
Next ==
    \/ \E topic \in Topics, resp \in {RaiseResponse, ListedResponse(2)} :
          process_topic(topic, resp) /\ UNCHANGED step
    \/ \E web \in UniformWeb(PyLen(state.search_queries),
                              {<<>>, <<100, 0>>, <<200, 200, 200>>, FiveLong}) :
          perform_research(web) /\ UNCHANGED step
    \/ \E resp \in {RaiseResponse, TextResponse(Plain(GoodPlan)), TextResponse(Plain(PyDict(<<>>)))} :
          analyze_content(resp) /\ UNCHANGED step
    \/ \E pk \in {PyNone, PyStr("kayak touring")}, sk \in {PyNone, PyList(<<PyStr("touring")>>)},
          ti \in {PyNone, PyStr("Touring by Kayak")}, ou \in {PyNone, PyList(<<PyStr("Routes")>>)} :
          update_content_plan(pk, sk, ti, ou) /\ UNCHANGED step
    \/ \E wc \in WordCounts, resp \in ArticleResponses :
          generate_article(wc, resp) /\ UNCHANGED step

Spec == Init /\ [][Next]_vars

(***************************************************************************)
(* SpecQueries: generate_search_queries as a function of its arguments and *)
(* of the completion response                                              *)
(***************************************************************************)
call_generate_search_queries(topic, num_queries, resp) ==
    /\ last' = Outcome("generate_search_queries", "none",
                       generate_search_queries(topic, num_queries, resp), 1, 0, 0,
                       [topic |-> topic, num_queries |-> num_queries, resp |-> resp])
    /\ UNCHANGED <<state, done, step>>

NextQueries ==
    \E topic \in Topics, num_queries \in 1..MaxCount, resp \in QueryResponses :
        call_generate_search_queries(topic, num_queries, resp)

SpecQueries == Init /\ [][NextQueries]_vars

(***************************************************************************)
(* SpecResearch: one perform_research on a session that holds any number   *)
(* of stored queries, each query answered in any of the ways of Answers.   *)
(* perform_research loops over whatever self.state["search_queries"]       *)
(* holds; process_topic stores at most NumQueriesDefault of them, so the   *)
(* sessions with more queries are reached only by a caller that fills the  *)
(* state dict (get_state returns it) or asks for more than 5 queries.      *)
(***************************************************************************)
StoredQueries(n) ==
    IF n = 0 THEN InitState
    ELSE [InitState EXCEPT !.topic = PyStr("kayaking"), !.search_queries = Queries(n)]

InitResearch ==
    /\ state \in {StoredQueries(n) : n \in 0..MaxQueries}
    /\ last = Outcome("init", "none", PyNone, 0, 0, 0, <<>>)
    /\ done = {}
    /\ step = 1

NextResearch ==
    /\ last.op = "init"
    /\ \E web \in [1..PyLen(state.search_queries) -> Answers] : perform_research(web)
    /\ UNCHANGED step

SpecResearch == InitResearch /\ [][NextResearch]_vars

(***************************************************************************)
(* SpecAnalyze: the pipeline, with analyze_content given every response    *)
(***************************************************************************)
NextAnalyze ==
    \/ \E topic \in Topics : process_topic(topic, RaiseResponse) /\ UNCHANGED step
    \/ \E web \in UniformWeb(PyLen(state.search_queries), {<<>>, <<200, 200, 200>>}) :
          perform_research(web) /\ UNCHANGED step
    \/ \E resp \in AnalysisResponses : analyze_content(resp) /\ UNCHANGED step
    \/ \E resp \in ArticleResponses : generate_article(1500, resp) /\ UNCHANGED step

SpecAnalyze == Init /\ [][NextAnalyze]_vars

(***************************************************************************)
(* SpecEdit: the pipeline, with update_content_plan given every edit       *)
(***************************************************************************)
NextEdit ==
    \/ process_topic("kayaking", RaiseResponse) /\ UNCHANGED step
    \/ perform_research([i \in 1..PyLen(state.search_queries) |-> <<200, 200, 200>>])
          /\ UNCHANGED step
    \/ \E resp \in {RaiseResponse, TextResponse(Plain(GoodPlan))} :
          analyze_content(resp) /\ UNCHANGED step
    \/ \E pk \in KeywordEdits, sk \in KeywordsEdits, ti \in TitleEdits, ou \in OutlineEdits :
          update_content_plan(pk, sk, ti, ou) /\ UNCHANGED step
    \/ generate_article(1500, TextResponse(PyStr("# Sea Kayaking 101 ..."))) /\ UNCHANGED step

SpecEdit == Init /\ [][NextEdit]_vars

(***************************************************************************)
(* SpecSearch: search_web and scrape_content as functions of what the      *)
(* network answers                                                         *)
(***************************************************************************)
GoodResult(n) ==
    PyDict([title |-> PyStr("Result"), link |-> PyStr(QueryNames[n]),
            snippet |-> PyStr("...")])

JsonBody(body) == [kind |-> "json", body |-> body]
Organic(v) == JsonBody(PyDict([organic |-> v]))

SearchResponses ==
    {[kind |-> "transport"],
     [kind |-> "http"],
     JsonBody(PyList(<<>>)),
     JsonBody(PyDict(<<>>)),
     JsonBody(PyDict([message |-> PyStr("Unauthorized.")])),
     Organic(PyNone),
     Organic(PyList(<<>>)),
     Organic(PyList(<<GoodResult(1), GoodResult(2)>>)),
     Organic(PyList(<<PyNone, GoodResult(1), PyDict([title |-> PyStr("Result")]),
                      PyDict([link |-> PyStr("")])>>)),
     Organic(PyList(<<PyStr("x")>>)),
     Organic(PyStr("No results")),
     Organic(PyStr("")),
     Organic(PyDict([message |-> PyStr("No results")])),
     Organic(PyDict(<<>>)),
     Organic(PyInt(7))}

SearchedQueries == {FallbackQueries(topic).v[i].v : topic \in Topics, i \in 1..5}

call_search_web(query, resp) ==
    /\ last' = Outcome("search_web", search_web(resp).raised, search_web(resp).ret, 0, 1, 0,
                       [query |-> query, resp |-> resp])
    /\ UNCHANGED <<state, done, step>>

Body(soup) == [kind |-> "body", empty |-> FALSE, soup |-> soup]

Fetches ==
    {[kind |-> "transport", msg |-> "Connection refused"],
     [kind |-> "transport", msg |-> "Read timed out."],
     [kind |-> "http", msg |-> "404 Client Error"],
     [kind |-> "body", empty |-> TRUE, soup |-> NoElements],
     Body(ParseRaises),
     Body(NoElements),
     Body(Document(PyStr("Sea Kayaking"), NoMain, <<98, 40>>, <<12, 3, 0, 4>>)),
     Body(Document(PyStr("Sea Kayaking"), Main(<<150>>), <<30, 150, 60>>, <<12>>)),
     Body(Document(PyStr(""), Main(<<>>), <<150>>, <<>>)),
     Body(Document(PyNone, NoMain, <<>>, <<12>>))}

ScrapedUrls == {"u1", "u2", "u3", "u4", "u5", "u6"}

call_scrape_content(url, fetch) ==
    /\ last' = Outcome("scrape_content", "none", scrape_content(url, fetch), 0, 0, 1,
                       [url |-> url, fetch |-> fetch])
    /\ UNCHANGED <<state, done, step>>

NextSearch ==
    \/ \E query \in SearchedQueries, resp \in SearchResponses : call_search_web(query, resp)
    \/ \E url \in ScrapedUrls, fetch \in Fetches : call_scrape_content(url, fetch)

SpecSearch == Init /\ [][NextSearch]_vars

(***************************************************************************)
(* SpecUI: the session driven through the buttons of main.py. Each action  *)
(* is one click: the handler of the button, with the BlogWriter calls it   *)
(* makes, up to st.rerun() or to the except branch that shows the error.   *)
(* A button exists only while the page of its step is rendered.            *)
(***************************************************************************)
\* [line.strip() for line in text.split("\n") if line.strip()] over the
\* lines the text area holds
StrippedLines(lines) == PyList(SelectSeq(lines.v, LAMBDA e : e.v \notin {"", " "}))

\* main.py 144 and 161: "\n".join(...) of the stored list, while the page
\* of step 3 is drawn
PlanPageRenders == Joinable(state.secondary_keywords) /\ Joinable(state.outline)

\* main.py 196-202: "for kw in ..." over the two stored lists
ArticlePageRenders ==
    /\ state.secondary_keywords.t \in {"list", "str", "dict"}
    /\ state.outline.t \in {"list", "str", "dict"}

\* main.py 54-61
ui_research_topic(topic, resp) ==
    /\ step = 1
    /\ topic # ""
    /\ process_topic(topic, resp)
    /\ step' = 2

\* main.py 77-90: perform_research, then analyze_content on its result
ui_perform_research(web, resp) ==
    /\ step = 2
    /\ ~Truthy(state.scraped_content)
    /\ IF ~HasQueries
       THEN perform_research(web) /\ UNCHANGED step
       ELSE LET r == Research(state.search_queries, web)
                analysis == ai_analyze_content(state.topic.v, resp)
                researched == [state EXCEPT !.search_results = PyList(r.results),
                                            !.scraped_content = PyList(r.scraped)]
            IN  IF r.scraped = <<>>
                THEN /\ state' = researched
                     /\ last' = Outcome("analyze_content", "ValueError", PyNone, 0, 0, 0,
                                        [resp |-> resp])
                     /\ done' = done \cup {"perform_research"}
                     /\ UNCHANGED step
                ELSE IF analysis.t # "dict"
                THEN /\ state' = researched
                     /\ last' = Outcome("analyze_content", "AttributeError", PyNone, 1, 0, 0,
                                        [resp |-> resp])
                     /\ done' = done \cup {"perform_research"}
                     /\ UNCHANGED step
                ELSE /\ state' = [StorePlan(analysis) EXCEPT
                                     !.search_results = PyList(r.results),
                                     !.scraped_content = PyList(r.scraped)]
                     /\ last' = Outcome("analyze_content", "none", analysis, 1, 0, 0,
                                        [resp |-> resp])
                     /\ done' = done \cup {"perform_research", "analyze_content"}
                     /\ step' = 3

\* main.py 108-115
ui_continue_to_planning(resp) ==
    /\ step = 2
    /\ Truthy(state.scraped_content)
    /\ analyze_content(resp)
    /\ step' = IF last'.raised = "none" THEN 3 ELSE step

\* main.py 118-120, 179-181 and 247-249
ui_go_back ==
    /\ \/ step = 2
       \/ step = 3 /\ PlanPageRenders
       \/ step = 4 /\ ArticlePageRenders
    /\ step' = step - 1
    /\ UNCHANGED <<state, last, done>>

\* main.py 134-176: the two text inputs are passed as typed, the two text
\* areas as their stripped non-blank lines
ui_update_and_continue(primary_keyword, keyword_lines, title, outline_lines) ==
    /\ step = 3
    /\ PlanPageRenders
    /\ update_content_plan(primary_keyword, StrippedLines(keyword_lines),
                           title, StrippedLines(outline_lines))
    /\ step' = 4

\* main.py 215-223
ui_generate_article(word_count, resp) ==
    /\ step = 4
    /\ ArticlePageRenders
    /\ ~Truthy(state.article)
    /\ generate_article(word_count, resp)
    /\ UNCHANGED step

\* main.py 239-244
ui_regenerate_article(word_count, resp) ==
    /\ step = 4
    /\ ArticlePageRenders
    /\ Truthy(state.article)
    /\ generate_article(word_count, resp)
    /\ UNCHANGED step

\* what the user may leave or type in a text input and in a text area
TextInputs(stored) == {stored, PyStr(" "), PyStr("kayak touring")}
TextAreas(stored) == {stored, PyList(<<PyStr(" ")>>), PyList(<<PyStr("touring"), PyStr("")>>)}

NextUI ==
    \/ \E topic \in Topics \cup {""}, resp \in {RaiseResponse, ListedResponse(2)} :
          ui_research_topic(topic, resp)
    \/ \E web \in UniformWeb(PyLen(state.search_queries), {<<>>, <<200, 200, 200>>}),
          resp \in {RaiseResponse, TextResponse(Plain(GoodPlan)),
                    TextResponse(Plain(PyList(<<PyStr("sea kayaking")>>)))} :
          ui_perform_research(web, resp)
    \/ \E resp \in {RaiseResponse, TextResponse(Plain(GoodPlan)),
                    TextResponse(Plain(PyList(<<PyStr("sea kayaking")>>)))} :
          ui_continue_to_planning(resp)
    \/ ui_go_back
    \/ \E pk \in TextInputs(state.primary_keyword), sk \in TextAreas(state.secondary_keywords),
          ti \in {state.title},  ou \in {state.outline} :
          ui_update_and_continue(pk, sk, ti, ou)
    \/ \E wc \in WordCounts, resp \in ArticleResponses : ui_generate_article(wc, resp)
    \/ \E wc \in WordCounts, resp \in ArticleResponses : ui_regenerate_article(wc, resp)

SpecUI == Init /\ [][NextUI]_vars

(***************************************************************************)
(* Properties                                                              *)
(***************************************************************************)
Called(op) == last.op = op
Calls(op) == last'.op = op
Stages == {"process_topic", "perform_research", "analyze_content"}

\* a field that is unset or empty: None, "" or []
Empty(x) == x = PyNone \/ x = PyStr("") \/ x = PyList(<<>>)

NoExternalCall == last'.ai_calls = 0 /\ last'.searches = 0 /\ last'.scrapes = 0

\* C1: analyze_content called while no accepted page is stored raises
\* ValueError, makes no completion call and leaves the session state as it was.
C1_AnalyzeNeedsPages ==
    [][(Calls("analyze_content") /\ state.scraped_content = PyList(<<>>))
        => (last'.raised = "ValueError" /\ NoExternalCall /\ state' = state)]_vars

\* analyze_content has just failed after a research that accepted no page,
\* on a session that holds a topic, queries and search results
C1_Witness ==
    /\ Called("analyze_content") /\ last.raised = "ValueError"
    /\ "perform_research" \in done
    /\ state.scraped_content = PyList(<<>>)
    /\ state.search_results # PyList(<<>>)

\* C2: generate_article returns only in a session in which process_topic,
\* perform_research and analyze_content have each returned before.
C2_StagesInOrder ==
    (Called("generate_article") /\ last.raised = "none") => Stages \subseteq done

UniformFiveLong == [i \in 1..PyLen(state.search_queries) |-> FiveLong]

\* C4: with at least 5 stored queries, each answered by 5 results whose
\* pages hold 150 characters, perform_research stores exactly 25 pages, all
\* of the first five queries, and issues exactly 5 searches and 25 scrapes.
C4_StopsAtTwentyFive ==
    (/\ Called("perform_research") /\ last.raised = "none"
     /\ PyLen(state.search_queries) >= 5
     /\ last.args.web = UniformFiveLong)
    => /\ PyLen(state.scraped_content) = 25
       /\ \A i \in 1..PyLen(state.scraped_content) : state.scraped_content.v[i].url[1] <= 5
       /\ last.ret = state.scraped_content
       /\ last.searches = 5
       /\ last.scrapes = 25

\* more than five queries were stored and the research stopped after the fifth
C4_Witness ==
    /\ Called("perform_research") /\ last.raised = "none"
    /\ PyLen(state.search_queries) > 5
    /\ last.args.web = UniformFiveLong
    /\ PyLen(state.scraped_content) = 25
    /\ last.searches = 5

IsNonEmptyStr(x) == x.t = "str" /\ x.v # ""
IsNonEmptyStrList(x) ==
    x.t = "list" /\ x.v # <<>> /\ \A i \in 1..Len(x.v) : IsNonEmptyStr(x.v[i])

\* C5: analyze_content on a session with an accepted page returns, whatever
\* the completion call answers, and leaves the four plan fields stored
\* non-empty and of the expected types.
C5_PlanAlwaysUsable ==
    (Called("analyze_content") /\ state.scraped_content # PyList(<<>>))
    => /\ last.raised = "none"
       /\ IsNonEmptyStr(state.primary_keyword)
       /\ IsNonEmptyStrList(state.secondary_keywords)
       /\ IsNonEmptyStr(state.title)
       /\ IsNonEmptyStrList(state.outline)

\* C6: generate_search_queries(topic, num_queries) returns between 1 and
\* num_queries entries, each a non-empty string, whatever the completion
\* call answers.
C6_QueriesWellFormed ==
    Called("generate_search_queries")
    => /\ PyLen(last.ret) >= 1
       /\ PyLen(last.ret) <= last.args.num_queries
       /\ last.ret.t = "list" => \A i \in 1..PyLen(last.ret) : IsNonEmptyStr(last.ret.v[i])

PlanFields == {"primary_keyword", "secondary_keywords", "title", "outline"}
OtherFields == {"topic", "search_queries", "search_results", "scraped_content", "article"}

\* C7: generate_article called while one of the four plan fields is unset
\* or empty raises ValueError, makes no completion call and leaves the
\* session state, the stored article included, as it was.
C7_GenerateNeedsPlan ==
    [][(Calls("generate_article") /\ \E f \in PlanFields : Empty(state[f]))
        => (last'.raised = "ValueError" /\ NoExternalCall /\ state' = state)]_vars

\* generate_article has just failed on a plan whose primary keyword is "",
\* with an article of an earlier call still stored
C7_Witness ==
    /\ Called("generate_article") /\ last.raised = "ValueError"
    /\ state.primary_keyword = PyStr("")
    /\ state.article # PyNone

\* C8: perform_research called while no query is stored raises ValueError
\* before any search or scrape and leaves the session state as it was.
C8_ResearchNeedsQueries ==
    [][(Calls("perform_research") /\ state.search_queries = PyList(<<>>))
        => (last'.raised = "ValueError" /\ NoExternalCall /\ state' = state)]_vars

\* perform_research has just failed on a session that holds an edited plan
C8_Witness ==
    /\ Called("perform_research") /\ last.raised = "ValueError"
    /\ state.search_queries = PyList(<<>>)
    /\ state.title # PyNone

\* C9: update_content_plan sets each plan field whose argument is non-empty
\* to that argument, keeps each plan field whose argument is "", [] or
\* absent, changes no other field and makes no external call.
C9_EditFrame ==
    [][Calls("update_content_plan")
        => /\ \A f \in PlanFields :
                state'[f] = IF Empty(last'.args[f]) THEN state[f] ELSE last'.args[f]
           /\ \A f \in OtherFields : state'[f] = state[f]
           /\ last'.raised = "none"
           /\ NoExternalCall]_vars

\* an edit with an empty title and a new primary keyword has kept the
\* analysed title and replaced the keyword, on a session with an article
C9_Witness ==
    /\ Called("update_content_plan")
    /\ last.args.title = PyStr("") /\ state.title = PyStr("Sea Kayaking 101")
    /\ last.args.secondary_keywords = PyNone /\ state.secondary_keywords = GoodPlan.v.secondary_keywords
    /\ last.args.primary_keyword = PyStr("kayak touring")
    /\ state.primary_keyword = PyStr("kayak touring")
    /\ state.article # PyNone

\* C11: generate_article called on a complete plan (each of the four plan
\* fields truthy) does not raise, stores exactly the value it returns as the
\* article and changes no other field; when the completion call fails that
\* value is the string "Error generating article: " followed by the error.
C11_GenerateNeverRaises ==
    [][(Calls("generate_article") /\ \A f \in PlanFields : Truthy(state[f]))
        => /\ last'.raised = "none"
           /\ state'.article = last'.ret
           /\ \A f \in PlanFields \cup (OtherFields \ {"article"}) : state'[f] = state[f]
           /\ last'.args.resp.kind = "raise"
                => last'.ret = PyStr("Error generating article: " \o last'.args.resp.msg)]_vars

\* the values the end-to-end run is expected to store
FastingQueries ==
    PyList(<< PyStr("intermittent fasting guide"),
              PyStr("intermittent fasting best practices"),
              PyStr("how to intermittent fasting"),
              PyStr("intermittent fasting tips"),
              PyStr("intermittent fasting examples") >>)
FastingPlan ==
    [primary_keyword |-> PyStr("intermittent fasting"),
     secondary_keywords |->
         PyList(<< PyStr("intermittent fasting guide"), PyStr("intermittent fasting tips"),
                   PyStr("how to intermittent fasting") >>),
     title |-> PyStr("Complete Guide to Intermittent Fasting: Everything You Need to Know"),
     outline |->
         PyList(<< PyStr("Introduction to intermittent fasting"),
                   PyStr("Why intermittent fasting is Important"),
                   PyStr("Key Benefits of intermittent fasting"),
                   PyStr("How to Get Started with intermittent fasting"),
                   PyStr("Best Practices for intermittent fasting"),
                   PyStr("Common Challenges and Solutions"),
                   PyStr("Conclusion") >>)]
FastingError == PyStr("Error generating article: Connection error.")
ThreeOfTwoHundred == [i \in 1..5 |-> <<200, 200, 200>>]
HoldsFastingPlan(st) == \A f \in PlanFields : st[f] = FastingPlan[f]

\* C12: the end-to-end run for "intermittent fasting" with every completion
\* call failing. process_topic stores the 5 templated queries; perform_research
\* over them, 3 results per search and 200 characters per page, stores exactly
\* 15 pages; analyze_content then stores the templated plan whose
\* primary_keyword is the topic; generate_article(1500) on that plan returns
\* and stores the error string and does not raise.
C12_EndToEnd ==
    [][/\ (Calls("process_topic")
            /\ last'.args = [topic |-> "intermittent fasting", resp |-> RaiseResponse])
           => (last'.raised = "none" /\ state'.search_queries = FastingQueries
               /\ last'.ret = FastingQueries)
       /\ (Calls("perform_research") /\ state.search_queries = FastingQueries
            /\ last'.args = [web |-> ThreeOfTwoHundred])
           => (last'.raised = "none" /\ PyLen(state'.scraped_content) = 15
               /\ \A i \in 1..PyLen(state'.scraped_content) :
                      state'.scraped_content.v[i].content = 200)
       /\ (Calls("analyze_content") /\ state.topic = PyStr("intermittent fasting")
            /\ PyLen(state.scraped_content) = 15 /\ last'.args.resp = RaiseResponse)
           => (last'.raised = "none" /\ HoldsFastingPlan(state')
               /\ state'.primary_keyword = state.topic)
       /\ (Calls("generate_article") /\ HoldsFastingPlan(state)
            /\ last'.args.word_count = 1500)
           => (/\ last'.raised = "none"
               /\ last'.args.resp.kind = "raise"
                    => (last'.ret = FastingError /\ state'.article = FastingError))]_vars

\* the run has ended: queries, 15 pages, the templated plan and the error
\* string are stored, each stage having returned
C12_Witness ==
    /\ Called("generate_article") /\ last.raised = "none"
    /\ last.args.word_count = 1500
    /\ done = Stages \cup {"generate_article"}
    /\ state.topic = PyStr("intermittent fasting")
    /\ state.search_queries = FastingQueries
    /\ PyLen(state.scraped_content) = 15
    /\ HoldsFastingPlan(state)
    /\ state.article = FastingError

\* C13: once a topic is stored, no click changes the stored topic.
C13_TopicImmutable ==
    [][state.topic # PyNone => state'.topic = state.topic]_vars

\* the decoded body holds no list under "organic": the key is missing, or
\* its value is null, a string, an object or a number
NoOrganicList(resp) ==
    /\ resp.kind = "json" /\ resp.body.t = "dict"
    /\ Get(resp.body, "organic", PyNone).t # "list"

\* C14: search_web never raises; on a transport or HTTP failure, and on a
\* response whose "organic" is missing, null or not a list, it returns [].
C14_SearchNeverRaises ==
    Called("search_web")
    => /\ last.raised = "none"
       /\ (last.args.resp.kind \in {"transport", "http"} \/ NoOrganicList(last.args.resp))
            => last.ret = PyList(<<>>)

\* the fetch of a page that fails, has an empty body, or has a body that
\* is not HTML
NothingToScrape(fetch) ==
    \/ fetch.kind \in {"transport", "http"}
    \/ fetch.empty
    \/ fetch.soup \in {ParseRaises, NoElements}

\* C15: scrape_content never raises; for a URL whose fetch fails, whose body
\* is empty or whose body is not HTML, the page returned has error set and
\* empty content and headings.
C15_ScrapeNeverRaises ==
    Called("scrape_content")
    => /\ last.raised = "none"
       /\ NothingToScrape(last.args.fetch)
            => /\ "error" \in DOMAIN last.ret
               /\ last.ret.content = 0
               /\ last.ret.headings = <<>>

\* a completion whose text is garbage: not JSON, no fenced block, no
\* brace-delimited object, none of the four field patterns
Garbage(resp) == resp.kind = "text" /\ resp.content = Plain(NotJson)

\* the plan expected for garbage on topic "kayaking"
KayakingGarbagePlan ==
    PyDict([primary_keyword |-> PyStr("kayaking"),
            secondary_keywords |->
                PyList(<< PyStr("kayaking guide"), PyStr("kayaking tips"),
                          PyStr("how to kayaking") >>),
            title |-> PyStr("Complete Guide to Kayaking"),
            outline |->
                PyList(<< PyStr("Introduction to kayaking"),
                          PyStr("Why kayaking is Important"),
                          PyStr("Key Benefits of kayaking"),
                          PyStr("How to Get Started with kayaking"),
                          PyStr("Best Practices for kayaking"),
                          PyStr("Common Challenges and Solutions"),
                          PyStr("Conclusion") >>)])

\* C16: for a garbage completion on topic T the parser returns a plan whose
\* primary_keyword is T and whose outline holds exactly 7 entries, each a
\* non-empty string; the plan depends on T alone (for "kayaking" it is the
\* same plan in every session) and is the plan stored.
C16_GarbageGivesTemplate ==
    (Called("analyze_content") /\ last.ai_calls = 1 /\ Garbage(last.args.resp))
    => /\ last.raised = "none"
       /\ Get(last.ret, "primary_keyword", PyNone) = state.topic
       /\ PyLen(Get(last.ret, "outline", PyList(<<>>))) = 7
       /\ IsNonEmptyStrList(Get(last.ret, "outline", PyList(<<>>)))
       /\ state.topic = PyStr("kayaking") => last.ret = KayakingGarbagePlan
       /\ \A f \in PlanFields : state[f] = Get(last.ret, f, PyNone)

\* garbage has just been analysed in a session on "kayaking"
C16_Witness ==
    /\ Called("analyze_content") /\ last.raised = "none"
    /\ Garbage(last.args.resp)
    /\ state.topic = PyStr("kayaking")
    /\ state.primary_keyword = PyStr("kayaking")
    /\ PyLen(state.outline) = 7

\* a completion whose text is, as a whole, a valid JSON object
WholeJsonObject(resp) ==
    /\ resp.kind = "text" /\ resp.content.t = "text"
    /\ resp.content.json.t = "dict"

\* C17: for a completion that is as a whole a valid JSON object the parser
\* returns exactly that object, whatever else the later strategies could
\* find in the text, and analyze_content stores its four fields.
C17_ValidJsonUnchanged ==
    (Called("analyze_content") /\ last.ai_calls = 1 /\ WholeJsonObject(last.args.resp))
    => /\ last.raised = "none"
       /\ last.ret = last.args.resp.content.json
       /\ state.primary_keyword = Get(last.ret, "primary_keyword", PyNone)
       /\ state.secondary_keywords = Get(last.ret, "secondary_keywords", PyList(<<>>))
       /\ state.title = Get(last.ret, "title", PyNone)
       /\ state.outline = Get(last.ret, "outline", PyList(<<>>))

\* an object with a fifth key, in a text where method 3 and method 4 would
\* find something too, has been returned as it is
C17_Witness ==
    /\ Called("analyze_content") /\ last.raised = "none"
    /\ WholeJsonObject(last.args.resp)
    /\ last.args.resp.content = Text(AnnotatedPlan, NoFence, <<GroupTuple>>, AllFields)
    /\ last.ret = AnnotatedPlan
    /\ state.title = PyStr("Sea Kayaking 101")

\* a completion whose text is not JSON as a whole, has no fenced block and
\* holds one brace-delimited match whose text is a valid JSON object
EmbedsObject(resp) ==
    /\ resp.kind = "text" /\ resp.content.t = "text"
    /\ resp.content.json = NotJson /\ resp.content.fence = NoFence
    /\ Len(resp.content.matches) = 1
    /\ "whole" \in DOMAIN resp.content.matches[1]
    /\ resp.content.matches[1].whole.json.t = "dict"

\* C18: for a completion that embeds a valid JSON object in other text the
\* parser returns that object, parsed by method 3; method 4 is not reached.
C18_EmbeddedObjectReturned ==
    (Called("analyze_content") /\ last.ai_calls = 1 /\ EmbedsObject(last.args.resp))
    => /\ last.raised = "none"
       /\ last.ret = last.args.resp.content.matches[1].whole.json
       /\ StrategyUsed(last.args.resp) = 3

\* the position of a stored page: its query, then its result
Before(p, q) == p.url[1] < q.url[1] \/ (p.url[1] = q.url[1] /\ p.url[2] < q.url[2])

\* C19: after a perform_research that returned, the stored pages are, in
\* query order then result order, exactly the pages of the first 5 results
\* of each processed query whose content is longer than 100 characters; no
\* other page is stored and no result after the fifth is scraped.
C19_StoredPagesExact ==
    (Called("perform_research") /\ last.raised = "none")
    => LET pages == state.scraped_content.v
           web == last.args.web
       IN  /\ \A k \in 1..Len(pages) :
                 /\ pages[k].url[1] \in 1..last.searches
                 /\ pages[k].url[2] \in 1..5
                 /\ pages[k].url[2] <= Len(web[pages[k].url[1]])
                 /\ pages[k].content = web[pages[k].url[1]][pages[k].url[2]]
                 /\ pages[k].content > 100
           /\ \A k \in 1..(Len(pages) - 1) : Before(pages[k], pages[k + 1])
           /\ \A q \in 1..last.searches : \A i \in 1..Len(web[q]) :
                 (i <= 5 /\ web[q][i] > 100)
                   => \E k \in 1..Len(pages) : pages[k].url = <<q, i>>
           /\ last.scrapes <= 5 * last.searches
           /\ last.ret = state.scraped_content

\* a query answered by six results of 150, 100, 0, 101, 99 and 150
\* characters has left its first and fourth page stored, among others
C19_Witness ==
    /\ Called("perform_research") /\ last.raised = "none"
    /\ PyLen(state.search_queries) >= 2
    /\ last.args.web[2] = <<150, 100, 0, 101, 99, 150>>
    /\ {state.scraped_content.v[k].url[2] :
          k \in {j \in 1..PyLen(state.scraped_content) : state.scraped_content.v[j].url[1] = 2}}
         = {1, 4}
    /\ \E k \in 1..PyLen(state.scraped_content) : state.scraped_content.v[k].url[1] = 1

\* C20: process_topic changes the stored topic and queries and nothing else;
\* in the app no click changes the search results and pages once a page is
\* stored, so after a second topic the plan is analysed and the article
\* generated from the pages of the first.
C20_SubmitTopicFrame ==
    [][/\ Calls("process_topic")
           => /\ state'.topic = PyStr(last'.args.topic)
              /\ state'.search_queries = last'.ret
              /\ \A f \in PlanFields \cup {"search_results", "scraped_content", "article"} :
                    state'[f] = state[f]
       /\ state.scraped_content # PyList(<<>>)
           => /\ state'.scraped_content = state.scraped_content
              /\ state'.search_results = state.search_results]_vars

\* an article has been generated for "intermittent fasting", from a plan
\* analysed for that topic, on the 15 pages of the five queries of an
\* earlier topic: the two queries of the new topic were never searched
C20_Witness ==
    /\ Called("generate_article") /\ last.raised = "none"
    /\ state.topic = PyStr("intermittent fasting")
    /\ PyLen(state.search_queries) = 2
    /\ PyLen(state.scraped_content) = 15
    /\ state.primary_keyword = PyStr("intermittent fasting")
    /\ state.article = last.ret

\* C21: from a state in which the four plan fields are all non-empty, an
\* update_content_plan or a generate_article with any arguments leaves all
\* four non-empty, and the generate_article does not fail its guard.
C21_CompletenessPreserved ==
    [][((Calls("update_content_plan") \/ Calls("generate_article"))
         /\ \A f \in PlanFields : Truthy(state[f]))
        => /\ \A f \in PlanFields : Truthy(state'[f])
           /\ Calls("generate_article") => last'.raised # "ValueError"]_vars

\* an edit with an empty title, an empty outline and no keywords has been
\* made on a complete plan, after an article was generated from it
C21_Witness ==
    /\ Called("update_content_plan")
    /\ last.args.title = PyStr("") /\ last.args.outline = PyList(<<>>)
    /\ last.args.secondary_keywords = PyNone
    /\ \A f \in PlanFields : Truthy(state[f])
    /\ state.article # PyNone

\* a blank value: not empty, nothing but whitespace
Blank(x) == x = PyStr(" ")

\* C10: update_content_plan ignores a blank title and a blank primary
\* keyword: the stored value of that field stays as it was.
C10_BlankEditIgnored ==
    [][Calls("update_content_plan")
        => /\ Blank(last'.args.title) => state'.title = state.title
           /\ Blank(last'.args.primary_keyword)
                => state'.primary_keyword = state.primary_keyword]_vars

====
